---- MODULE Spec2Model ----
(***************************************************************************)
(* AdGuard Home Filter Optimizer (scripts/optimizer.py).                   *)
(*                                                                         *)
(* A Python str is modelled as a sequence of one-character strings, so     *)
(* that strip, split, sort, startswith/endswith and the two regular        *)
(* expressions are computed character by character as the code does.       *)
(* Python's None is modelled by the one-element sequence <<"None">>, whose *)
(* element is no character.                                                *)
(***************************************************************************)
EXTENDS Integers, Sequences, FiniteSets, TLC

(***************************************************************************)
(* Characters.                                                             *)
(***************************************************************************)
\* The characters in use, in code point order (the order str comparison uses).
CodePointOrder ==
  << "\n", " ", "!", "#", "$", ",", "-", ".", "/", "0", "1", ":", "=", "@", "^",
     "a", "b", "c", "d", "e", "f", "g", "h", "i", "j", "k", "l", "m", "n", "o",
     "p", "q", "r", "s", "t", "u", "v", "w", "x", "y", "z", "|" >>

Ord(c) == CHOOSE k \in 1..Len(CodePointOrder) : CodePointOrder[k] = c

\* \s of the re module and the characters str.strip() removes.
Whitespace == {" ", "\n"}

\* [a-zA-Z]
Letters ==
  {"a", "b", "c", "d", "e", "f", "g", "h", "i", "j", "k", "l", "m", "n", "o",
   "p", "q", "r", "s", "t", "u", "v", "w", "x", "y", "z"}

\* [a-zA-Z0-9.-]
HostChars == Letters \cup {"0", "1", ".", "-"}

\* [^/^$]
AnchorStop == {"/", "^", "$"}

None == <<"None">>

(***************************************************************************)
(* str operations.                                                         *)
(***************************************************************************)
Range(s) == {s[k] : k \in 1..Len(s)}

SetMin(S) == CHOOSE x \in S : \A y \in S : x <= y

SetMax(S) == CHOOSE x \in S : \A y \in S : x >= y

StartsWith(s, p) == Len(s) >= Len(p) /\ SubSeq(s, 1, Len(p)) = p

EndsWith(s, p) == Len(s) >= Len(p) /\ SubSeq(s, Len(s) - Len(p) + 1, Len(s)) = p

\* str.strip()
Strip(s) ==
  LET keep == {k \in 1..Len(s) : s[k] \notin Whitespace}
  IN  IF keep = {} THEN <<>> ELSE SubSeq(s, SetMin(keep), SetMax(keep))

\* re.sub(r'\s+', ' ', s)
RECURSIVE CollapseFrom(_, _)
CollapseFrom(s, k) ==
  IF k > Len(s) THEN <<>>
  ELSE IF s[k] \in Whitespace
       THEN (IF k > 1 /\ s[k - 1] \in Whitespace THEN <<>> ELSE <<" ">>)
            \o CollapseFrom(s, k + 1)
       ELSE <<s[k]>> \o CollapseFrom(s, k + 1)

CollapseWhitespace(s) == CollapseFrom(s, 1)

\* Index of the first c in s, 0 when there is none.
IndexOf(s, c) ==
  LET at == {k \in 1..Len(s) : s[k] = c}
  IN  IF at = {} THEN 0 ELSE SetMin(at)

\* s.split(c): every separator splits, empty parts are kept.
RECURSIVE Split(_, _)
Split(s, c) ==
  LET k == IndexOf(s, c)
  IN  IF k = 0 THEN <<s>>
      ELSE <<SubSeq(s, 1, k - 1)>> \o Split(SubSeq(s, k + 1, Len(s)), c)

\* s.split(c, 1): at most one split, at the first separator.
SplitFirst(s, c) ==
  LET k == IndexOf(s, c)
  IN  IF k = 0 THEN <<s>>
      ELSE <<SubSeq(s, 1, k - 1), SubSeq(s, k + 1, Len(s))>>

\* c.join(parts)
RECURSIVE Join(_, _)
Join(parts, c) ==
  IF parts = <<>> THEN <<>>
  ELSE IF Len(parts) = 1 THEN parts[1]
  ELSE parts[1] \o <<c>> \o Join(Tail(parts), c)

\* a < b for str: code point order, a proper prefix is smaller.
RECURSIVE StrLess(_, _)
StrLess(a, b) ==
  IF b = <<>> THEN FALSE
  ELSE IF a = <<>> THEN TRUE
  ELSE IF a[1] # b[1] THEN Ord(a[1]) < Ord(b[1])
  ELSE StrLess(Tail(a), Tail(b))

\* Insert x into the sorted list after every element that is not greater.
RECURSIVE InsertSorted(_, _)
InsertSorted(x, sorted) ==
  IF sorted = <<>> THEN <<x>>
  ELSE IF StrLess(x, sorted[1]) THEN <<x>> \o sorted
  ELSE <<sorted[1]>> \o InsertSorted(x, Tail(sorted))

\* list.sort() / sorted() of a list of str (stable).
RECURSIVE SortStr(_)
SortStr(list) ==
  IF list = <<>> THEN <<>>
  ELSE InsertSorted(list[Len(list)], SortStr(SubSeq(list, 1, Len(list) - 1)))

(***************************************************************************)
(* Configuration: load_config's default_config.  Only the keys the         *)
(* pipeline reads are kept; the two switches are inputs of a run.          *)
(***************************************************************************)
supported_modifiers ==
  << <<"d", "o", "m", "a", "i", "n">>,
     <<"t", "h", "i", "r", "d", "-", "p", "a", "r", "t", "y">>,
     <<"i", "m", "p", "o", "r", "t", "a", "n", "t">>,
     <<"c", "l", "i", "e", "n", "t">>,
     <<"d", "n", "s", "t", "y", "p", "e">>,
     <<"d", "n", "s", "r", "e", "w", "r", "i", "t", "e">>,
     <<"r", "e", "w", "r", "i", "t", "e">> >>

Configs ==
  [domain_convergence : BOOLEAN, format_standardize : BOOLEAN,
   supported_modifiers : {supported_modifiers}]

(***************************************************************************)
(* convert_to_pipe_format and its two regular expressions.                 *)
(***************************************************************************)
\* re.match(r'^\|\|([^/^$]+)\^', rule) is not None
AnchoredMatch(rule) ==
  /\ StartsWith(rule, <<"|", "|">>)
  /\ \E k \in 4..Len(rule) :
        /\ rule[k] = "^"
        /\ \A j \in 3..(k - 1) : rule[j] \notin AnchorStop

\* The dots at which [a-zA-Z0-9.-]+\.[a-zA-Z]{2,} can match when it starts at i.
DomainDots(rule, i) ==
  {p \in (i + 1)..(Len(rule) - 2) :
     /\ \A j \in i..(p - 1) : rule[j] \in HostChars
     /\ rule[p] = "."
     /\ rule[p + 1] \in Letters
     /\ rule[p + 2] \in Letters}

\* Length of the run of letters of rule that starts at k.
RECURSIVE LetterRun(_, _)
LetterRun(rule, k) ==
  IF k <= Len(rule) /\ rule[k] \in Letters THEN 1 + LetterRun(rule, k + 1) ELSE 0

\* re.search(r'([a-zA-Z0-9.-]+\.[a-zA-Z]{2,})', rule): group(1) of the leftmost
\* match, greedy (the last dot that letters follow, then every letter), or None.
DomainSearch(rule) ==
  LET starts == {i \in 1..Len(rule) : DomainDots(rule, i) # {}}
  IN  IF starts = {} THEN None
      ELSE LET i == SetMin(starts)
               p == SetMax(DomainDots(rule, i))
           IN  SubSeq(rule, i, p + LetterRun(rule, p + 1))

\* Faulty variant: without the `re.match` test, an anchored rule that carries
\* options is rewritten from the first host found.
convert_to_pipe_format_unanchored(rule) ==
  IF StartsWith(rule, <<"|", "|">>) /\ EndsWith(rule, <<"^">>) THEN rule
  ELSE IF StartsWith(rule, <<"@", "@", "|", "|">>) /\ EndsWith(rule, <<"^">>) THEN rule
  ELSE LET domain == DomainSearch(rule)
       IN  IF domain # None
           THEN IF StartsWith(rule, <<"@", "@">>)
                THEN <<"@", "@", "|", "|">> \o domain \o <<"^">>
                ELSE <<"|", "|">> \o domain \o <<"^">>
           ELSE rule

convert_to_pipe_format(rule) ==
  IF StartsWith(rule, <<"|", "|">>) /\ EndsWith(rule, <<"^">>) THEN rule
  ELSE IF StartsWith(rule, <<"@", "@", "|", "|">>) /\ EndsWith(rule, <<"^">>) THEN rule
  ELSE IF AnchoredMatch(rule) THEN rule
  ELSE LET domain == DomainSearch(rule)
       IN  IF domain # None
           THEN IF StartsWith(rule, <<"@", "@">>)
                THEN <<"@", "@", "|", "|">> \o domain \o <<"^">>
                ELSE <<"|", "|">> \o domain \o <<"^">>
           ELSE rule

(***************************************************************************)
(* normalize_rule.                                                         *)
(***************************************************************************)
\* modifier.split('=')[0]
ModName(modifier) == Split(modifier, "=")[1]

\* [m.strip() for m in modifiers.split(',') if m.strip()]
ModifierList(modifiers) ==
  LET parts == Split(modifiers, ",")
      stripped == [k \in 1..Len(parts) |-> Strip(parts[k])]
  IN  SelectSeq(stripped, LAMBDA m : m # <<>>)

\* The loop over modifier_list: the modifiers whose name is supported.
ValidModifiers(modifier_list, cfg) ==
  SelectSeq(modifier_list,
            LAMBDA m : \E k \in 1..Len(cfg.supported_modifiers) :
                          cfg.supported_modifiers[k] = ModName(m))

\* The `if '$' in rule:` block: the rule with its modifiers filtered and sorted.
FilterModifiers(rule, cfg) ==
  IF "$" \in Range(rule)
  THEN LET parts == SplitFirst(rule, "$")
           pattern == Strip(parts[1])
           modifiers == Strip(parts[2])
           valid_modifiers == ValidModifiers(ModifierList(modifiers), cfg)
       IN  IF valid_modifiers # <<>>
           THEN pattern \o <<"$">> \o Join(SortStr(valid_modifiers), ",")
           ELSE pattern
  ELSE rule

normalize_rule(raw, cfg) ==
  LET stripped == Strip(raw)
  IN  IF stripped = <<>> \/ stripped[1] = "!" \/ stripped[1] = "#" THEN None
      ELSE LET rule == FilterModifiers(CollapseWhitespace(stripped), cfg)
           IN  IF cfg.format_standardize THEN convert_to_pipe_format(rule) ELSE rule

\* `if normalized:` in run: neither None nor the empty str.
Truthy(normalized) == normalized # None /\ normalized # <<>>

(***************************************************************************)
(* deduplicate_rules.                                                      *)
(***************************************************************************)
\* The scan of deduplicate_rules over rules[1..n]: seen, unique_rules, duplicates.
RECURSIVE DedupScan(_, _)
DedupScan(rules, n) ==
  IF n = 0 THEN [seen |-> {}, unique_rules |-> <<>>, duplicates |-> <<>>]
  ELSE LET before == DedupScan(rules, n - 1)
           r == rules[n]
       IN  IF r \notin before.seen
           THEN [before EXCEPT !.seen = @ \cup {r}, !.unique_rules = Append(@, r)]
           ELSE [before EXCEPT !.duplicates = Append(@, r)]

\* Faulty variant: only a rule equal to its predecessor counts as a duplicate.
deduplicate_rules_adjacent(rules) ==
  LET ks == [k \in 1..Len(rules) |-> k]
      first == SelectSeq(ks, LAMBDA k : k = 1 \/ rules[k] # rules[k - 1])
      again == SelectSeq(ks, LAMBDA k : k > 1 /\ rules[k] = rules[k - 1])
  IN  [unique_rules |-> [i \in 1..Len(first) |-> rules[first[i]]],
       duplicates |-> [i \in 1..Len(again) |-> rules[again[i]]]]

\* Faulty variant: duplicates kept as a set, each repeated rule listed once.
deduplicate_rules_listed_once(rules) ==
  LET scan == DedupScan(rules, Len(rules))
  IN  [unique_rules |-> scan.unique_rules,
       duplicates |-> DedupScan(scan.duplicates, Len(scan.duplicates)).unique_rules]

\* Its two results: the returned unique_rules and the local duplicates.
deduplicate_rules(rules) ==
  LET scan == DedupScan(rules, Len(rules))
  IN  [unique_rules |-> scan.unique_rules, duplicates |-> scan.duplicates]

(***************************************************************************)
(* save_removed_rules: one block appended to the removal log.  The         *)
(* timestamp line is left out; the count line is len(rules).               *)
(***************************************************************************)
save_removed_rules(log, rules, reason) ==
  Append(log, [reason |-> reason, count |-> Len(rules), rules |-> rules])

\* Faulty variant: the block is appended even when nothing was removed.
LogDuplicatesAlways(log, dups) == save_removed_rules(log, dups, "duplicates")

\* `if duplicates: self.save_removed_rules(duplicates, 'duplicates')`
LogDuplicates(log, dups) ==
  IF dups # <<>> THEN save_removed_rules(log, dups, "duplicates") ELSE log

(***************************************************************************)
(* domain_convergence.                                                     *)
(***************************************************************************)
\* rule.startswith('||') and rule.endswith('^')
IsDomainRule(rule) == StartsWith(rule, <<"|", "|">>) /\ EndsWith(rule, <<"^">>)

\* rule[2:-1]
HostOf(rule) == SubSeq(rule, 3, Len(rule) - 1)

\* other_rules
OtherRules(rules) == SelectSeq(rules, LAMBDA r : ~IsDomainRule(r))

\* The keys of the dict domain_rules, in insertion order.
RECURSIVE DomainKeys(_, _)
DomainKeys(rules, n) ==
  IF n = 0 THEN <<>>
  ELSE LET before == DomainKeys(rules, n - 1)
       IN  IF IsDomainRule(rules[n]) /\ HostOf(rules[n]) \notin Range(before)
           THEN Append(before, HostOf(rules[n]))
           ELSE before

\* domain_rules[d]: the last rule stored under the key d.
DomainRule(rules, d) ==
  rules[SetMax({k \in 1..Len(rules) : IsDomainRule(rules[k]) /\ HostOf(rules[k]) = d})]

\* Insert d after every key that is not shorter.
RECURSIVE InsertByLen(_, _)
InsertByLen(d, sorted) ==
  IF sorted = <<>> THEN <<d>>
  ELSE IF Len(d) > Len(sorted[1]) THEN <<d>> \o sorted
  ELSE <<sorted[1]>> \o InsertByLen(d, Tail(sorted))

\* sorted(domain_rules.keys(), key=len, reverse=True): longest first, stable.
RECURSIVE SortedDomains(_)
SortedDomains(keys) ==
  IF keys = <<>> THEN <<>>
  ELSE InsertByLen(keys[Len(keys)], SortedDomains(SubSeq(keys, 1, Len(keys) - 1)))

\* Faulty variant: a plain suffix test, without the label separator.
IsSubdomainPlainSuffix(domain, other) == EndsWith(domain, other) \/ domain = other

\* domain.endswith('.' + other) or domain == other
IsSubdomain(domain, other) == EndsWith(domain, <<".">> \o other) \/ domain = other

\* The double loop: the keys that some later (not longer) key covers.
ToRemove(rules) ==
  LET sorted_domains == SortedDomains(DomainKeys(rules, Len(rules)))
  IN  {sorted_domains[i] : i \in
         {i \in 1..Len(sorted_domains) :
            \E j \in (i + 1)..Len(sorted_domains) :
               IsSubdomain(sorted_domains[i], sorted_domains[j])}}

\* Faulty variant: the keys marked for removal are not filtered out.
ConvergedRulesUnfiltered(rules) ==
  LET keys == DomainKeys(rules, Len(rules))
  IN  OtherRules(rules) \o [k \in 1..Len(keys) |-> DomainRule(rules, keys[k])]

\* final_rules = other_rules + final_domain_rules
ConvergedRules(rules) ==
  LET keys == DomainKeys(rules, Len(rules))
      to_remove == ToRemove(rules)
      kept == SelectSeq(keys, LAMBDA d : d \notin to_remove)
  IN  OtherRules(rules) \o [k \in 1..Len(kept) |-> DomainRule(rules, kept[k])]

\* The orders in which iterating the set to_remove can yield its elements
\* (str hashes differ from one process to the next).
IterationOrders(S) ==
  {q \in [1..Cardinality(S) -> S] : \A i, j \in 1..Cardinality(S) : q[i] = q[j] => i = j}

(***************************************************************************)
(* save_results and save_statistics.  Timestamps are left out.             *)
(***************************************************************************)
\* self.stats['reduction_percent'] in save_results' header raises KeyError
\* while save_statistics has not set the key.
HeaderRaisesKeyError(st) == "reduction_percent" \notin DOMAIN st

\* The file save_results writes: the header's three numbers and the sorted rules.
save_results(st, rules) ==
  [original_rules |-> st.original_count, optimized_rules |-> Len(rules),
   reduction |-> st.reduction_percent, rules |-> SortStr(rules)]

\* final_count, as save_statistics computes it.
FinalCount(st) == st.valid_count - st.duplicate_count - st.converged_count

\* The stats after save_statistics (reduction_percent in whole percent).
save_statistics(st) ==
  LET final == FinalCount(st)
      reduction == IF st.original_count > 0
                   THEN ((st.original_count - final) * 100) \div st.original_count
                   ELSE 0
  IN  [k \in DOMAIN st \cup {"reduction_percent"} |->
         IF k = "final_count" THEN final
         ELSE IF k = "reduction_percent" THEN reduction
         ELSE st[k]]

\* sys.exit(0 if success else 1); an uncaught exception exits with 1 as well.
ExitCode(res) == IF res = "True" THEN 0 ELSE 1

(***************************************************************************)
(* Inputs.                                                                 *)
(***************************************************************************)
MaxLines == 3

MaxTokens == 2

NL == <<"\n">>

\* Lines of the rule files under the source directory, as readlines() yields them.
SourceLines ==
  { NL,
    <<"!", " ", "c">> \o NL,
    <<"#", " ", "c">> \o NL,
    <<"|", "|", "a", ".", "c", "o", "m", "^">> \o NL,
    <<"|", "|", "x", ".", "a", ".", "c", "o", "m", "^">> \o NL,
    <<"|", "|", "y", ".", "x", ".", "a", ".", "c", "o", "m", "^">> \o NL,
    <<"|", "|", "x", "a", ".", "c", "o", "m", "^">> \o NL,
    <<" ", "a", ".", "c", "o", "m", "/", "p">> \o NL,
    <<"@", "@", "|", "|", "a", ".", "c", "o", "m", "^">> \o NL,
    <<"|", "|", "a", ".", "c", "o", "m", "^", "$", "i", "m", "p", "o", "r", "t", "a", "n", "t",
      ",", "e", "v", "i", "l", "m", "o", "d", ",", "d", "o", "m", "a", "i", "n", "=", "b", ".",
      "c", "o", "m">> \o NL,
    <<"$", "x">> \o NL }

SeqsUpTo(S, n) == UNION {[1..k -> S] : k \in 0..n}

\* Lines for normalize_rule alone: lead, prefix, host, tail, then no options or
\* `$` and up to MaxTokens comma-separated tokens.
Leads == {<<>>, <<" ">>}

Prefixes == {<<>>, <<"|", "|">>, <<"@", "@">>, <<"@", "@", "|", "|">>, <<"#">>}

Hosts == {<<>>, <<"a", ".", "c", "o", "m">>, <<"x", ".", "a", ".", "c", "o", "m">>}

Tails == {<<>>, <<"^">>, <<"/", "p">>}

Tokens ==
  { <<>>,
    <<"i", "m", "p", "o", "r", "t", "a", "n", "t">>,
    <<" ", "i", "m", "p", "o", "r", "t", "a", "n", "t", " ">>,
    <<"d", "o", "m", "a", "i", "n", "=", "b", ".", "c", "o", "m">>,
    <<"t", "h", "i", "r", "d", "-", "p", "a", "r", "t", "y">>,
    <<"e", "v", "i", "l", "m", "o", "d">> }

OptionTexts ==
  {<<>>} \cup {<<"$">> \o Join(ts, ",") : ts \in SeqsUpTo(Tokens, MaxTokens)}

NormalizeInputs ==
  {lead \o prefix \o host \o tail \o opts \o NL :
     lead \in Leads, prefix \in Prefixes, host \in Hosts, tail \in Tails,
     opts \in OptionTexts}

(***************************************************************************)
(* State.                                                                  *)
(***************************************************************************)
VARIABLES
  pc,                 \* where run() is
  config,             \* self.config
  source_dir_exists,  \* os.path.exists(source_dir)
  source_lines,       \* the lines of the readable rule files, in glob order
  raw_rules,          \* run: raw_rules
  idx,                \* run: how many raw rules the normalize loop has taken
  rule,               \* run: the loop variable rule
  normalized,         \* run: normalized
  normalized_rules,   \* run: normalized_rules
  duplicates,         \* deduplicate_rules: duplicates
  deduplicated_rules, \* run: deduplicated_rules
  final_rules,        \* run: final_rules
  stats,              \* self.stats
  removed_rules_log,  \* the blocks this run appended to output.removed_rules_log
  optimized_file,     \* the writes of output.optimized_file
  statistics_file,    \* the writes of output.statistics_file
  result              \* "running", run's return value, or the exception it raised

vars ==
  <<pc, config, source_dir_exists, source_lines, raw_rules, idx, rule, normalized,
    normalized_rules, duplicates, deduplicated_rules, final_rules, stats,
    removed_rules_log, optimized_file, statistics_file, result>>

\* __init__: self.stats
InitStats ==
  [original_count |-> 0, valid_count |-> 0, duplicate_count |-> 0,
   converged_count |-> 0, final_count |-> 0]

InitLocals ==
  /\ raw_rules = <<>>
  /\ idx = 0
  /\ normalized = None
  /\ normalized_rules = <<>>
  /\ duplicates = <<>>
  /\ deduplicated_rules = <<>>
  /\ final_rules = <<>>
  /\ stats = InitStats
  /\ removed_rules_log = <<>>
  /\ optimized_file = <<>>
  /\ statistics_file = <<>>
  /\ result = "running"

Init ==
  /\ pc = "load_rules"
  /\ config \in Configs
  /\ source_dir_exists \in BOOLEAN
  /\ source_lines \in SeqsUpTo(SourceLines, MaxLines)
  /\ (~source_dir_exists => source_lines = <<>>)
  /\ rule = <<>>
  /\ InitLocals

(***************************************************************************)
(* run(), step by step.                                                    *)
(***************************************************************************)
\* Step 1: load_rules, and `if not raw_rules: return False`.
LoadRules ==
  /\ pc = "load_rules"
  /\ raw_rules' = IF source_dir_exists THEN source_lines ELSE <<>>
  /\ stats' = IF source_dir_exists
              THEN [stats EXCEPT !.original_count = Len(source_lines)]
              ELSE stats
  /\ IF raw_rules' = <<>>
     THEN pc' = "done" /\ result' = "False"
     ELSE pc' = "normalize" /\ result' = result
  /\ UNCHANGED <<config, source_dir_exists, source_lines, idx, rule, normalized,
                 normalized_rules, duplicates, deduplicated_rules, final_rules,
                 removed_rules_log, optimized_file, statistics_file>>

\* Step 2, one turn of `for rule in raw_rules`.
NormalizeOne ==
  /\ pc = "normalize"
  /\ idx < Len(raw_rules)
  /\ idx' = idx + 1
  /\ rule' = raw_rules[idx + 1]
  /\ normalized' = normalize_rule(rule', config)
  /\ normalized_rules' = IF Truthy(normalized')
                         THEN Append(normalized_rules, normalized')
                         ELSE normalized_rules
  /\ UNCHANGED <<pc, config, source_dir_exists, source_lines, raw_rules, duplicates,
                 deduplicated_rules, final_rules, stats, removed_rules_log,
                 optimized_file, statistics_file, result>>

\* Step 2, after the loop: valid_count.
NormalizeDone ==
  /\ pc = "normalize"
  /\ idx = Len(raw_rules)
  /\ stats' = [stats EXCEPT !.valid_count = Len(normalized_rules)]
  /\ pc' = "deduplicate"
  /\ UNCHANGED <<config, source_dir_exists, source_lines, raw_rules, idx, rule,
                 normalized, normalized_rules, duplicates, deduplicated_rules,
                 final_rules, removed_rules_log, optimized_file, statistics_file,
                 result>>

\* Step 3: deduplicate_rules(normalized_rules).
Deduplicate ==
  /\ pc = "deduplicate"
  /\ LET d == deduplicate_rules(normalized_rules)
     IN  /\ duplicates' = d.duplicates
         /\ deduplicated_rules' = d.unique_rules
         /\ stats' = [stats EXCEPT !.duplicate_count = Len(d.duplicates)]
         /\ removed_rules_log' = LogDuplicates(removed_rules_log, d.duplicates)
  /\ pc' = "domain_convergence"
  /\ UNCHANGED <<config, source_dir_exists, source_lines, raw_rules, idx, rule,
                 normalized, normalized_rules, final_rules, optimized_file,
                 statistics_file, result>>

\* Step 4: domain_convergence(deduplicated_rules).
DomainConvergence ==
  /\ pc = "domain_convergence"
  /\ IF ~config.domain_convergence
     THEN /\ final_rules' = deduplicated_rules
          /\ UNCHANGED <<stats, removed_rules_log>>
     ELSE LET to_remove == ToRemove(deduplicated_rules)
          IN  /\ final_rules' = ConvergedRules(deduplicated_rules)
              /\ stats' = [stats EXCEPT !.converged_count = Cardinality(to_remove)]
              /\ IF to_remove # {}
                 THEN \E order \in IterationOrders(to_remove) :
                        removed_rules_log' =
                          save_removed_rules(
                            removed_rules_log,
                            [k \in 1..Len(order) |->
                               DomainRule(deduplicated_rules, order[k])],
                            "subdomains")
                 ELSE removed_rules_log' = removed_rules_log
  /\ pc' = "save"
  /\ UNCHANGED <<config, source_dir_exists, source_lines, raw_rules, idx, rule,
                 normalized, normalized_rules, duplicates, deduplicated_rules,
                 optimized_file, statistics_file, result>>

\* Step 5: save_results(final_rules), then save_statistics(), then return True.
SaveOutputs ==
  /\ pc = "save"
  /\ IF HeaderRaisesKeyError(stats)
     THEN /\ result' = "KeyError"
          /\ UNCHANGED <<stats, optimized_file, statistics_file>>
     ELSE /\ optimized_file' = Append(optimized_file, save_results(stats, final_rules))
          /\ stats' = save_statistics(stats)
          /\ statistics_file' = Append(statistics_file, stats')
          /\ result' = "True"
  /\ pc' = "done"
  /\ UNCHANGED <<config, source_dir_exists, source_lines, raw_rules, idx, rule,
                 normalized, normalized_rules, duplicates, deduplicated_rules,
                 final_rules, removed_rules_log>>

Next ==
  \/ LoadRules
  \/ NormalizeOne
  \/ NormalizeDone
  \/ Deduplicate
  \/ DomainConvergence
  \/ SaveOutputs

Spec == Init /\ [][Next]_vars

(***************************************************************************)
(* normalize_rule alone, on one line.                                      *)
(***************************************************************************)
InitNormalize ==
  /\ pc = "normalize_rule"
  /\ config \in {c \in Configs : c.domain_convergence}
  /\ source_dir_exists = TRUE
  /\ source_lines = <<>>
  /\ rule \in NormalizeInputs
  /\ InitLocals

CallNormalizeRule ==
  /\ pc = "normalize_rule"
  /\ normalized' = normalize_rule(rule, config)
  /\ pc' = "returned"
  /\ UNCHANGED <<config, source_dir_exists, source_lines, raw_rules, idx, rule,
                 normalized_rules, duplicates, deduplicated_rules, final_rules, stats,
                 removed_rules_log, optimized_file, statistics_file, result>>

NextNormalize == CallNormalizeRule

SpecNormalize == InitNormalize /\ [][NextNormalize]_vars

(***************************************************************************)
(* Vocabulary of the properties.                                           *)
(***************************************************************************)
Count(list, x) == Cardinality({k \in 1..Len(list) : list[k] = x})

FirstIndex(list, x) == SetMin({k \in 1..Len(list) : list[k] = x})

\* The elements of list that repeat an earlier element, in order.
LaterOccurrences(list) ==
  LET ks == SelectSeq([k \in 1..Len(list) |-> k],
                      LAMBDA k : \E j \in 1..(k - 1) : list[j] = list[k])
  IN  [i \in 1..Len(ks) |-> list[ks[i]]]

\* The rules of the removal log's blocks with the given reason, block after block.
RECURSIVE LoggedUpTo(_, _, _)
LoggedUpTo(log, reason, n) ==
  IF n = 0 THEN <<>>
  ELSE LoggedUpTo(log, reason, n - 1)
       \o (IF log[n].reason = reason THEN log[n].rules ELSE <<>>)

Logged(reason) == LoggedUpTo(removed_rules_log, reason, Len(removed_rules_log))

AllLogged == Logged("duplicates") \o Logged("subdomains")

\* r is a `||host^` rule whose host ends with "." + the host of the `||o^` rule o.
Dominated(r, o) ==
  /\ IsDomainRule(r)
  /\ IsDomainRule(o)
  /\ o # r
  /\ EndsWith(HostOf(r), <<".">> \o HostOf(o))

\* The trimmed line is non-empty and does not begin with `!` or `#`.
IsRuleLine(line) ==
  LET s == Strip(line) IN s # <<>> /\ s[1] \notin {"!", "#"}

Converged == pc \in {"save", "done"} /\ result # "False"

(***************************************************************************)
(* C1.  Every run() that loads at least one raw line finishes with success *)
(* status and has written the optimized-rules file and the statistics      *)
(* file; failure is the outcome only of a run that loaded no raw line.     *)
(* Stated on the finished run.                                             *)
(***************************************************************************)
C1_LoadedRunSucceeds ==
  (pc = "done" /\ raw_rules # <<>>) =>
     /\ result = "True"
     /\ ExitCode(result) = 0
     /\ Len(optimized_file) = 1
     /\ Len(statistics_file) = 1

(***************************************************************************)
(* C2.  With domain_convergence enabled, every rule domain_convergence     *)
(* removes from its deduplicated input is a `||host^` rule dominated by    *)
(* another `||o^` rule that is kept; a rule that no rule of the input      *)
(* dominates is kept; every rule not of the `||...^` form is kept.         *)
(***************************************************************************)
C2_ConvergenceRemovesOnlyDominated ==
  (Converged /\ config.domain_convergence) =>
     LET inp == Range(deduplicated_rules)
         out == Range(final_rules)
     IN  /\ out \subseteq inp
         /\ \A r \in inp \ out : \E o \in out : Dominated(r, o)
         /\ \A r \in inp : (\A o \in inp : ~Dominated(r, o)) => r \in out
         /\ \A r \in inp : ~IsDomainRule(r) => r \in out

\* A chain: a removed rule one of whose dominating rules was removed as well.
C2_Witness ==
  /\ Converged
  /\ config.domain_convergence
  /\ \E r, o \in Range(deduplicated_rules) \ Range(final_rules) : Dominated(r, o)

(***************************************************************************)
(* C4.  normalized_rules holds exactly one rule for every raw line taken   *)
(* so far whose trimmed text is non-empty and does not begin with `!` or   *)
(* `#`, and valid_count is the number of such lines.                       *)
(***************************************************************************)
C4_OneRulePerRuleLine ==
  LET taken == {k \in 1..idx : IsRuleLine(raw_rules[k])}
  IN  /\ Len(normalized_rules) = Cardinality(taken)
      /\ pc \in {"deduplicate", "domain_convergence", "save", "done"} =>
            stats.valid_count = Cardinality(taken)

(***************************************************************************)
(* C5, as claimed.  A removed rule is in exactly one removal record, once, *)
(* and its canonical string is not in the final rule list.                 *)
(***************************************************************************)
C5_RemovedOnceAndAbsent ==
  Converged =>
     \A r \in Range(AllLogged) :
        Count(AllLogged, r) = 1 /\ r \notin Range(final_rules)

(***************************************************************************)
(* C5, amended.  Every removed occurrence is recorded exactly once, in the *)
(* one record of the stage that removed it: as multisets, the normalized   *)
(* rules are the final rules plus the rules of the `duplicates` record     *)
(* plus those of the `subdomains` record.  A rule of the `subdomains`      *)
(* record is there once and is not in the final list.  A rule of the       *)
(* `duplicates` record is there once per extra occurrence, and its string  *)
(* is still in the final list unless it is in the `subdomains` record too. *)
(***************************************************************************)
C5_EveryRemovalRecordedOnce ==
  Converged =>
     LET dups == Logged("duplicates")
         subs == Logged("subdomains")
     IN  /\ \A r \in Range(normalized_rules) \cup Range(AllLogged) \cup Range(final_rules) :
               Count(normalized_rules, r)
                 = Count(final_rules, r) + Count(dups, r) + Count(subs, r)
         /\ \A i, j \in 1..Len(removed_rules_log) :
               removed_rules_log[i].reason = removed_rules_log[j].reason => i = j
         /\ \A r \in Range(subs) : Count(subs, r) = 1 /\ r \notin Range(final_rules)
         /\ \A r \in Range(dups) :
               /\ Count(dups, r) = Count(normalized_rules, r) - 1
               /\ r \in Range(final_rules) \/ r \in Range(subs)

\* A rule in both records: its second occurrence removed by dedupe, its first
\* by converge.
C5_Witness ==
  /\ Converged
  /\ Len(removed_rules_log) = 2
  /\ \E r \in Range(Logged("duplicates")) : r \in Range(Logged("subdomains"))

(***************************************************************************)
(* C6, as claimed.  Nothing is written to the removal log, the optimized   *)
(* file or the statistics file before normalize, dedupe and converge have  *)
(* all finished.                                                           *)
(***************************************************************************)
C6_NoWriteBeforeConverged ==
  pc \in {"load_rules", "normalize", "deduplicate", "domain_convergence"} =>
     /\ removed_rules_log = <<>>
     /\ optimized_file = <<>>
     /\ statistics_file = <<>>

(***************************************************************************)
(* C6, amended.  The files are read before any computation and not again;  *)
(* nothing is written before normalize has finished; the optimized file    *)
(* and the statistics file are not written before converge has finished.   *)
(* The removal log is written by the stage that removes: dedupe appends    *)
(* the non-empty `duplicates` block before converge starts, and converge   *)
(* appends the non-empty `subdomains` block after it.                      *)
(***************************************************************************)
C6_WritesFollowTheirStage ==
  /\ pc # "load_rules" =>
        raw_rules = (IF source_dir_exists THEN source_lines ELSE <<>>)
  /\ pc \in {"load_rules", "normalize", "deduplicate"} =>
        /\ removed_rules_log = <<>>
        /\ optimized_file = <<>>
        /\ statistics_file = <<>>
  /\ pc = "domain_convergence" =>
        /\ optimized_file = <<>>
        /\ statistics_file = <<>>
        /\ removed_rules_log =
             (IF duplicates = <<>> THEN <<>>
              ELSE <<[reason |-> "duplicates", count |-> Len(duplicates),
                      rules |-> duplicates]>>)
  /\ Converged =>
        /\ \A k \in 1..Len(removed_rules_log) : removed_rules_log[k].rules # <<>>
        /\ \A k \in 1..Len(removed_rules_log) :
              removed_rules_log[k].reason = "subdomains" => k = Len(removed_rules_log)

\* The duplicates block is in the log while converge has not started.
C6_Witness ==
  /\ pc = "domain_convergence"
  /\ Len(removed_rules_log) = 1
  /\ removed_rules_log[1].reason = "duplicates"

(***************************************************************************)
(* C7.  Feeding the sorted final rule list through normalize, dedupe and   *)
(* converge again changes no rule in normalize, finds no duplicate,        *)
(* removes no host, and returns the same set of rules; with convergence    *)
(* enabled no kept `||h^` rule is dominated by another kept rule.          *)
(***************************************************************************)
C7_PipelineIdempotent ==
  Converged =>
     LET fed == SortStr(final_rules)
         again == [k \in 1..Len(fed) |-> normalize_rule(fed[k], config)]
         dedup == deduplicate_rules(again)
         final == IF config.domain_convergence
                  THEN ConvergedRules(dedup.unique_rules)
                  ELSE dedup.unique_rules
     IN  /\ \A k \in 1..Len(fed) : Truthy(again[k]) /\ again[k] = fed[k]
         /\ dedup.duplicates = <<>>
         /\ config.domain_convergence => ToRemove(dedup.unique_rules) = {}
         /\ Range(final) = Range(final_rules)
         /\ Len(final) = Len(final_rules)
         /\ config.domain_convergence =>
               \A r, o \in Range(final_rules) : ~Dominated(r, o)

\* A run that canonicalized, deduplicated and converged, with a rule left to feed back.
C7_Witness ==
  /\ Converged
  /\ config.domain_convergence
  /\ config.format_standardize
  /\ final_rules # <<>>
  /\ stats.duplicate_count >= 1
  /\ stats.converged_count >= 1
  /\ \E k \in 1..Len(raw_rules) : normalize_rule(raw_rules[k], config) # Strip(raw_rules[k])

CountersBalanceBeforeSave ==
  Converged =>
     /\ stats.original_count >= stats.valid_count
     /\ FinalCount(stats) = Len(final_rules)

(***************************************************************************)
(* Vocabulary of the properties of normalize_rule: the trimmed line with   *)
(* its whitespace runs collapsed, its pattern (the text before the first   *)
(* `$`), its options text (the text after it) and the tokens that survive. *)
(***************************************************************************)
LineOf(raw) == CollapseWhitespace(Strip(raw))

HasOptions(raw) == IndexOf(LineOf(raw), "$") > 0

PatternOf(raw) ==
  LET l == LineOf(raw)
      k == IndexOf(l, "$")
  IN  Strip(IF k = 0 THEN l ELSE SubSeq(l, 1, k - 1))

OptionsOf(raw) ==
  LET l == LineOf(raw) IN SubSeq(l, IndexOf(l, "$") + 1, Len(l))

\* The text of a token before its first `=`.
NameOf(token) ==
  LET k == IndexOf(token, "=")
  IN  IF k = 0 THEN token ELSE SubSeq(token, 1, k - 1)

\* The trimmed, non-empty, comma-separated tokens whose name is allow-listed.
SurvivingTokens(raw, cfg) ==
  LET parts == Split(OptionsOf(raw), ",")
      trimmed == [k \in 1..Len(parts) |-> Strip(parts[k])]
  IN  SelectSeq(trimmed,
                LAMBDA m : m # <<>> /\ NameOf(m) \in Range(cfg.supported_modifiers))

\* q holds the elements of list, each as often, in non-decreasing order.
IsSortedArrangement(q, list) ==
  /\ Len(q) = Len(list)
  /\ \A t \in Range(q) \cup Range(list) : Count(q, t) = Count(list, t)
  /\ \A i, j \in 1..Len(q) : i < j => ~StrLess(q[j], q[i])

Arrangements(list) ==
  {[k \in 1..Len(list) |-> list[f[k]]] : f \in Permutations(1..Len(list))}

\* `||host^` with a non-empty host free of `/`, `^` and `$`.
IsAnchoredHost(p) ==
  /\ Len(p) >= 4
  /\ StartsWith(p, <<"|", "|">>)
  /\ p[Len(p)] = "^"
  /\ \A j \in 3..(Len(p) - 1) : p[j] \notin AnchorStop

(***************************************************************************)
(* C3.  For a line with at least one allow-listed modifier whose pattern   *)
(* canonicalization rewrites, normalize_rule returns the rewritten pattern *)
(* followed by `$` and the surviving modifiers, sorted.                    *)
(***************************************************************************)
C3_CanonicalizesPatternOnly ==
  (/\ pc = "returned"
   /\ config.format_standardize
   /\ normalized # None
   /\ HasOptions(rule)
   /\ SurvivingTokens(rule, config) # <<>>
   /\ convert_to_pipe_format(PatternOf(rule)) # PatternOf(rule))
  => normalized = convert_to_pipe_format(PatternOf(rule)) \o <<"$">>
                    \o Join(SortStr(SurvivingTokens(rule, config)), ",")

(***************************************************************************)
(* C8.  For a line whose pattern is `||host^` (host non-empty, without     *)
(* `/`, `^`, `$`) followed by `$` and an options text, normalize_rule      *)
(* returns the pattern, `$`, and exactly the surviving tokens, trimmed, in *)
(* lexicographic order, joined with `,`; the bare pattern if none survives.*)
(***************************************************************************)
C8_FiltersAndSortsModifiers ==
  (/\ pc = "returned"
   /\ HasOptions(rule)
   /\ IsAnchoredHost(PatternOf(rule)))
  => LET kept == SurvivingTokens(rule, config)
     IN  IF kept = <<>>
         THEN normalized = PatternOf(rule)
         ELSE \E q \in Arrangements(kept) :
                 /\ IsSortedArrangement(q, kept)
                 /\ normalized = PatternOf(rule) \o <<"$">> \o Join(q, ",")

\* Two surviving tokens that the line gives in descending order, canonicalization on.
C8_Witness ==
  /\ pc = "returned"
  /\ config.format_standardize
  /\ HasOptions(rule)
  /\ IsAnchoredHost(PatternOf(rule))
  /\ LET kept == SurvivingTokens(rule, config)
     IN  Len(kept) = 2 /\ StrLess(kept[2], kept[1])
  /\ Len(Split(OptionsOf(rule), ",")) = 2

====
